---- MODULE Spec2Model ----
(***************************************************************************)
(* LINE calendar bot: the scheduling operations of calendar_operations.py  *)
(* and calendar_chat.py against the remote calendar, and the message       *)
(* parser of message_parser.py with its caller handle_message (app.py).    *)
(*                                                                         *)
(* Time is counted in minutes since 00:00 (Asia/Tokyo) of day 0.  The      *)
(* remote calendar is the variable store; every place where the code       *)
(* issues events().list / insert / update / delete is one remote call with *)
(* an outcome: "ok", "timeout" (future.result(timeout=...) expired) or     *)
(* "error" (the call raised).                                              *)
(***************************************************************************)
EXTENDS Integers, Sequences, FiniteSets, TLC

VARIABLES
    store,   \* the events of the remote calendar
    before,  \* the calendar as it was when the last operation started
    res,     \* what the last operation returned and which remote calls it made
    msg,     \* the text message being handled, with what the parser made of it
    adds,    \* the add requests that are handled in parallel, each with its position
    db       \* the users table of the database, with the calls made on it

vars == <<store, before, res, msg, adds, db>>

(***************************************************************************)
(* Bounds of the model and constants of the program                        *)
(***************************************************************************)
MaxEvents == 2

StopAfterAttempt == 3

DeleteBufferMinutes == 120

ToleranceMinutes == 60

DayMinutes == 1440

\* Titles are strings, modelled as sequences of characters so that the
\* code's "in" (substring) and "!=" tests are computed, not assumed.
NoTitle == << >>

Titles == { <<"a">>, <<"a", "b">> }

\* start/end pairs used for stored events and for requests:
\* 15:00-16:00, 15:30-16:30, 16:00-17:00, 17:00-18:00, 19:00-20:00
Intervals == { <<900, 960>>, <<930, 990>>, <<960, 1020>>, <<1020, 1080>>, <<1140, 1200>> }

\* the new intervals of update requests: 15:00-16:00, 16:00-17:30
NewIntervals == { <<900, 960>>, <<960, 1050>> }

Ids == 1..MaxEvents

Outcomes == {"ok", "timeout", "error"}

Event(i, t, s, e) == [id |-> i, summary |-> t, start |-> s, end |-> e]

EventValues == { Event(i, t, iv[1], iv[2]) : i \in Ids, t \in Titles, iv \in Intervals }

IdsOf(S) == { e.id : e \in S }

UniqueIds(S) == \A e \in S, f \in S : e.id = f.id => e = f

(***************************************************************************)
(* Strings                                                                 *)
(***************************************************************************)
\* Python's  a in b  for strings
IsSubstring(a, b) ==
    \E k \in 0..(Len(b) - Len(a)) : \A j \in 1..Len(a) : b[k + j] = a[j]

(***************************************************************************)
(* The remote calendar (Google Calendar API v3, events resource)           *)
(***************************************************************************)
RECURSIVE SortedByStart(_)
SortedByStart(S) ==
    IF S = {} THEN << >>
    ELSE LET m == CHOOSE e \in S : \A f \in S :
                      e.start < f.start \/ (e.start = f.start /\ e.id <= f.id)
         IN  <<m>> \o SortedByStart(S \ {m})

\* events().list(timeMin, timeMax, singleEvents=True, orderBy='startTime'):
\* timeMin bounds the end of an event, timeMax its start, both exclusive.
StoreList(st, timeMin, timeMax) ==
    SortedByStart({ e \in st : e.start < timeMax /\ e.end > timeMin })

FreeId(st) == CHOOSE i \in Ids : i \notin IdsOf(st)

HasFreeId(st) == IdsOf(st) # Ids

StoreInsert(st, t, s, e) == st \cup { Event(FreeId(st), t, s, e) }

StoreDelete(st, i) == { e \in st : e.id # i }

Call(name, outcome) == [call |-> name, outcome |-> outcome]

CallNames(calls) == { calls[k].call : k \in 1..Len(calls) }

SeqToSet(q) == { q[k] : k \in 1..Len(q) }

(***************************************************************************)
(* tenacity  @retry(stop=stop_after_attempt(n))                            *)
(***************************************************************************)
\* The wrapped function is called again only when the call before it raised,
\* and at most n times in all.  raised[i] says whether attempt i raised.
RECURSIVE RetryAttempts(_, _, _)
RetryAttempts(raised, i, n) ==
    IF raised[i] /\ i < n THEN RetryAttempts(raised, i + 1, n) ELSE i

(***************************************************************************)
(* CalendarManager (calendar_operations.py)                                *)
(***************************************************************************)
\* get_events catches TimeoutError and every Exception and returns [] from
\* each handler, so no outcome of the list call makes it raise.
GetEventsRaises(outcome) == FALSE

\* outs[i] is the outcome the list call would have on attempt i.
GetEvents(st, start_time, end_time, title, outs) ==
    LET raised == [i \in 1..StopAfterAttempt |-> GetEventsRaises(outs[i])]
        n      == RetryAttempts(raised, 1, StopAfterAttempt)
        listed == StoreList(st, start_time, end_time)
        hit(e) == title = NoTitle \/ IsSubstring(title, e.summary)
    IN  [ events |-> IF outs[n] = "ok" THEN SelectSeq(listed, hit) ELSE << >>,
          calls  |-> [i \in 1..n |-> Call("list", outs[i])] ]

Always(o) == [i \in 1..StopAfterAttempt |-> o]

\* _check_overlapping_events: only an event with the same start and the same
\* end (and the same title, when one is given) is reported.
IsOverlapping(e, start_time, end_time, title) ==
    /\ (title = NoTitle \/ e.summary = title)
    /\ e.start = start_time /\ e.end = end_time

CheckOverlappingEvents(st, start_time, end_time, title, outs) ==
    LET got == GetEvents(st, start_time, end_time, NoTitle, outs)
        hit(e) == IsOverlapping(e, start_time, end_time, title)
    IN  [ overlapping |-> SelectSeq(got.events, hit), calls |-> got.calls ]

\* What an operation returned, with the remote calls it issued, in order.
\*   start, end, title : the arguments;  nstart, nend : the new interval of an update
\*   ids    : the events reported as conflicts, or read, or handed to delete
\*   cands  : the candidates an update found for the event to change
\*   target : the id of the event an update chose, 0 when none
Result(op, s, e, t, ok, kind, ids, calls, n) ==
    [ op |-> op, start |-> s, end |-> e, title |-> t, nstart |-> 0, nend |-> 0,
      success |-> ok, kind |-> kind, ids |-> ids, cands |-> {}, target |-> 0,
      calls |-> calls, count |-> n ]

NoResult == Result("none", 0, 0, NoTitle, FALSE, "none", {}, << >>, 0)

UpdateResult(op, s, e, t, ns, ne, ok, kind, ids, cands, tgt, calls) ==
    [ Result(op, s, e, t, ok, kind, ids, calls, 0)
        EXCEPT !.nstart = ns, !.nend = ne, !.cands = cands, !.target = tgt ]

\* No request is being handled.
Idle == res = NoResult

\* add_event(start_time, end_time, title): o is the outcome of the list call
\* of the overlap check and c the outcome of the insert call.
AddEventCall(start_time, end_time, title) ==
    \E o \in Outcomes, c \in Outcomes, landed \in BOOLEAN :
        LET chk == CheckOverlappingEvents(store, start_time, end_time, title, Always(o))
            created == StoreInsert(store, title, start_time, end_time)
        IN  /\ before' = store
            /\ IF chk.overlapping # << >>
               THEN /\ c = "ok" /\ ~landed
                    /\ store' = store
                    /\ res' = Result("add", start_time, end_time, title, FALSE, "conflict",
                                     IdsOf(SeqToSet(chk.overlapping)), chk.calls, 0)
               ELSE /\ HasFreeId(store)
                    /\ landed => c = "timeout"
                    /\ store' = IF c = "ok" \/ landed THEN created ELSE store
                    /\ res' = Result("add", start_time, end_time, title, c = "ok",
                                     IF c = "ok" THEN "ok" ELSE c, {},
                                     Append(chk.calls, Call("insert", c)), 0)

\* add_event called with an interval and a title of the calendar's own
AddEvent ==
    /\ Idle
    /\ UNCHANGED <<msg, adds, db>>
    /\ \E iv \in Intervals, title \in Titles \cup {NoTitle} :
          AddEventCall(iv[1], iv[2], title)

\* get_events(start_time, end_time, title) called for a read request
ReadEventsCall(start_time, end_time, title) ==
    \E outs \in [1..StopAfterAttempt -> Outcomes] :
        LET got == GetEvents(store, start_time, end_time, title, outs)
        IN  /\ before' = store
            /\ store' = store
            /\ res' = Result("read", start_time, end_time, title, TRUE, "ok",
                             IdsOf(SeqToSet(got.events)), got.calls, Len(got.events))

ReadEvents ==
    /\ Idle
    /\ UNCHANGED <<msg, adds, db>>
    /\ \E iv \in Intervals, title \in Titles \cup {NoTitle} :
          ReadEventsCall(iv[1], iv[2], title)

\* delete_event: the events of the window that pass the title test
DeleteMatches(events, title) ==
    SelectSeq(events, LAMBDA e : ~(title # NoTitle /\ e.summary # title))

\* The delete loop over the matched events.  douts[i] is the outcome of the
\* delete call for event i: only "ok" counts, a timeout or an error is logged
\* and the loop goes on.  A call that timed out may still have been carried
\* out by the calendar (landed).
DeleteLoop(st, matched, douts, landed) ==
    LET ids  == IdsOf(SeqToSet(matched))
        gone == { i \in ids : douts[i] = "ok" \/ (douts[i] = "timeout" /\ i \in landed) }
    IN  [ store |-> { e \in st : e.id \notin gone },
          deleted_count |-> Cardinality({ i \in ids : douts[i] = "ok" }),
          calls |-> [k \in 1..Len(matched) |-> Call("delete", douts[matched[k].id])] ]

\* What delete_event returns once the loop is over.
DeleteLoopSuccess(deleted_count, attempted) == TRUE

\* delete_event(start_time, end_time, title)
DeleteEventCall(start_time, end_time, title) ==
    \E l \in Outcomes, douts \in [Ids -> Outcomes], landed \in SUBSET Ids :
        LET iv == <<start_time, end_time>>
            search_start == start_time - DeleteBufferMinutes
            search_end   == end_time + DeleteBufferMinutes
            events  == StoreList(store, search_start, search_end)
            matched == DeleteMatches(events, title)
            ids     == IdsOf(SeqToSet(matched))
            loop    == DeleteLoop(store, matched, douts, landed)
            fail(kind) == Result("delete", iv[1], iv[2], title, FALSE, kind, {},
                                 <<Call("list", l)>>, 0)
        IN  /\ before' = store
            /\ IF l # "ok" \/ events = << >>
               THEN /\ douts = [i \in Ids |-> "ok"] /\ landed = {}
                    /\ store' = store
                    /\ res' = fail(IF l # "ok" THEN l ELSE "not_found")
               ELSE /\ \A i \in Ids \ ids : douts[i] = "ok"
                    /\ landed \subseteq { i \in ids : douts[i] = "timeout" }
                    /\ store' = loop.store
                    /\ res' = Result("delete", iv[1], iv[2], title,
                                     DeleteLoopSuccess(loop.deleted_count, Len(matched)),
                                     "ok", ids, <<Call("list", l)>> \o loop.calls,
                                     loop.deleted_count)

DeleteEvent ==
    /\ Idle
    /\ UNCHANGED <<msg, adds, db>>
    /\ \E iv \in Intervals, title \in Titles \cup {NoTitle} :
          DeleteEventCall(iv[1], iv[2], title)

\* events().update(eventId, body): the event gets the new start and end, and
\* the new title when the body carries one.
StoreUpdate(st, i, s, e, t) ==
    { IF x.id = i
      THEN [x EXCEPT !.start = s, !.end = e,
                     !.summary = IF t = NoTitle THEN @ ELSE t]
      ELSE x : x \in st }

\* update_event(start_time, end_time, new_start_time, new_end_time, title):
\* the first event that get_events returns for the old interval is the one
\* that is rewritten.
ManagerUpdateChoice(events) == events[1].id

ManagerUpdateEvent ==
    /\ Idle
    /\ UNCHANGED <<msg, adds, db>>
    /\ \E iv \in Intervals, niv \in Intervals, title \in Titles \cup {NoTitle},
       o \in Outcomes, u \in Outcomes, landed \in BOOLEAN :
        LET got == GetEvents(store, iv[1], iv[2], NoTitle, Always(o))
            r(ok, kind, cands, tgt, calls) ==
                UpdateResult("update", iv[1], iv[2], title, niv[1], niv[2],
                             ok, kind, {}, cands, tgt, calls)
        IN  /\ before' = store
            /\ IF got.events = << >>
               THEN /\ u = "ok" /\ ~landed
                    /\ store' = store
                    /\ res' = r(FALSE, "not_found", {}, 0, got.calls)
               ELSE LET tgt == ManagerUpdateChoice(got.events)
                    IN  /\ landed => u = "timeout"
                        /\ store' = IF u = "ok" \/ landed
                                    THEN StoreUpdate(store, tgt, niv[1], niv[2], title)
                                    ELSE store
                        /\ res' = r(u = "ok", IF u = "ok" THEN "ok" ELSE u,
                                    IdsOf(SeqToSet(got.events)), tgt,
                                    Append(got.calls, Call("update", u)))

(***************************************************************************)
(* CalendarChat (calendar_chat.py).  Its remote calls are made with        *)
(* .execute() and no timeout of their own: a call that does not answer     *)
(* ends in an exception like any other failure.                            *)
(***************************************************************************)
Abs(x) == IF x < 0 THEN -x ELSE x

DayStart(t) == (t \div DayMinutes) * DayMinutes

RemoveAt(q, k) == [i \in 1..(Len(q) - 1) |-> IF i < k THEN q[i] ELSE q[i + 1]]

\* list.sort(key=|start - target_date|): ascending and stable
RECURSIVE SortByTimeDiff(_, _)
SortByTimeDiff(q, t) ==
    IF q = << >> THEN << >>
    ELSE LET k == CHOOSE i \in 1..Len(q) : \A j \in 1..Len(q) :
                      \/ Abs(q[i].start - t) < Abs(q[j].start - t)
                      \/ (Abs(q[i].start - t) = Abs(q[j].start - t) /\ i <= j)
         IN  <<q[k]>> \o SortByTimeDiff(RemoveAt(q, k), t)

\* get_events(time_min, time_max): [] when the call fails
ChatGetEvents(st, time_min, time_max, o) ==
    IF o = "ok" THEN StoreList(st, time_min, time_max) ELSE << >>

\* The overlap test of check_overlapping_events and check_availability.
ChatOverlaps(e, start_time, end_time) ==
    e.start < end_time /\ e.end > start_time

\* check_overlapping_events(start_time, end_time)
ChatCheckOverlappingEvents(st, start_time, end_time, o) ==
    SelectSeq(ChatGetEvents(st, start_time, end_time, o),
              LAMBDA e : ChatOverlaps(e, start_time, end_time))

CheckOverlapping ==
    /\ Idle
    /\ UNCHANGED <<msg, adds, db>>
    /\ \E iv \in Intervals, o \in Outcomes :
        LET found == ChatCheckOverlappingEvents(store, iv[1], iv[2], o)
        IN  /\ before' = store
            /\ store' = store
            /\ res' = Result("check", iv[1], iv[2], NoTitle, TRUE, "ok",
                             IdsOf(SeqToSet(found)), <<Call("list", o)>>, Len(found))

\* The title test of find_events_by_date_and_title.  The titles of this model
\* are single lower-case words, for which split() yields the keyword itself
\* and lower() changes nothing.
KeywordMatches(title_keyword, summary) ==
    title_keyword = NoTitle \/ IsSubstring(title_keyword, summary)

\* find_events_by_date_and_title(target_date, title_keyword): [] when the list
\* call fails
FindEventsByDateAndTitle(st, target_date, title_keyword, o) ==
    LET events == IF o = "ok"
                  THEN StoreList(st, target_date - ToleranceMinutes,
                                 target_date + ToleranceMinutes)
                  ELSE << >>
        hit(e) == /\ KeywordMatches(title_keyword, e.summary)
                  /\ Abs(e.start - target_date) <= ToleranceMinutes
    IN  SortByTimeDiff(SelectSeq(events, hit), target_date)

\* reschedule_event without the test on the event's own id
RescheduleConflictsWithSelf(st, new_start_time, new_end_time, target_id) ==
    StoreList(st, new_start_time, new_end_time)

\* The conflicts reschedule_event collects for the new interval: every event
\* the calendar lists for it, but for the event being moved.
RescheduleConflicts(st, new_start_time, new_end_time, target_id) ==
    SelectSeq(StoreList(st, new_start_time, new_end_time),
              LAMBDA e : e.id # target_id)

NoDuration == 0

\* What reschedule_event and update_event_duration do with the candidates:
\* "none" and "many" end the request, "one" goes on with the only candidate.
Candidates(events) ==
    IF events = << >> THEN "none" ELSE IF Len(events) > 1 THEN "many" ELSE "one"

\* 15:00, 16:30
TargetTimes == {900, 990}

\* 15:00, 15:30, 16:00
NewStarts == {900, 930, 960}

Durations == {90}

\* reschedule_event(target_date, title_keyword, new_start_time, new_duration)
SecondsPerMinute == 60

\* The new end reschedule_event computes, all times in seconds: with a
\* new_duration (minutes) it is that long after the new start; without one
\* the length of the event is taken in minutes, int() dropping the seconds.
RescheduleNewEndTime(target_start, target_end, new_start_time, new_duration) ==
    IF new_duration # NoDuration
    THEN new_start_time + new_duration * SecondsPerMinute
    ELSE LET original_duration == (target_end - target_start) \div SecondsPerMinute
         IN  new_start_time + original_duration * SecondsPerMinute

\* The new end update_event_duration computes (seconds): the start stays and
\* the event lasts duration_minutes.
DurationNewEndTime(target_start, duration_minutes) ==
    target_start + duration_minutes * SecondsPerMinute

RescheduleEvent ==
    /\ Idle
    /\ UNCHANGED <<msg, adds, db>>
    /\ \E target_date \in TargetTimes, title_keyword \in Titles \cup {NoTitle},
          new_start_time \in NewStarts, new_duration \in Durations \cup {NoDuration},
          f \in Outcomes, l \in Outcomes, u \in Outcomes, landed \in BOOLEAN :
        LET events == FindEventsByDateAndTitle(store, target_date, title_keyword, f)
            target_event == events[1]
            new_end_time ==
                RescheduleNewEndTime(target_event.start * SecondsPerMinute,
                                     target_event.end * SecondsPerMinute,
                                     new_start_time * SecondsPerMinute,
                                     new_duration) \div SecondsPerMinute
            conflicts == RescheduleConflicts(store, new_start_time, new_end_time,
                                             target_event.id)
            find == <<Call("list", f)>>
            r(ne, ok, kind, ids, tgt, calls) ==
                UpdateResult("reschedule", target_date, new_duration, title_keyword,
                             new_start_time, ne, ok, kind, ids,
                             IdsOf(SeqToSet(events)), tgt, calls)
        IN  /\ before' = store
            /\ landed => u = "timeout"
            /\ IF Candidates(events) # "one"
               THEN /\ l = "ok" /\ u = "ok"
                    /\ store' = store
                    /\ res' = r(0, FALSE,
                                IF Candidates(events) = "none" THEN "not_found"
                                                               ELSE "ambiguous",
                                {}, 0, find)
               ELSE IF l # "ok"
               THEN /\ u = "ok"
                    /\ store' = store
                    /\ res' = r(new_end_time, FALSE, "error", {}, target_event.id,
                                Append(find, Call("list", l)))
               ELSE IF conflicts # << >>
               THEN /\ u = "ok"
                    /\ store' = store
                    /\ res' = r(new_end_time, FALSE, "conflict",
                                IdsOf(SeqToSet(conflicts)), target_event.id,
                                Append(find, Call("list", l)))
               ELSE /\ store' = IF u = "ok" \/ landed
                                THEN StoreUpdate(store, target_event.id, new_start_time,
                                                 new_end_time, NoTitle)
                                ELSE store
                    /\ res' = r(new_end_time, u = "ok", IF u = "ok" THEN "ok" ELSE "error",
                                {}, target_event.id,
                                find \o <<Call("list", l), Call("update", u)>>)

\* update_event_duration: the first other event of the day that the
\* lengthened event would run into, if any
DurationConflicts(events, target_event, new_end_time) ==
    SelectSeq(events, LAMBDA e :
        /\ e.id # target_event.id
        /\ target_event.start < e.end /\ new_end_time > e.start)

\* update_event_duration(target_date, title_keyword, duration_minutes)
UpdateEventDuration ==
    /\ Idle
    /\ UNCHANGED <<msg, adds, db>>
    /\ \E target_date \in TargetTimes, title_keyword \in Titles,
          duration_minutes \in Durations, l \in Outcomes, u \in Outcomes,
          landed \in BOOLEAN :
        LET search_start == DayStart(target_date)
            search_end   == DayStart(target_date) + DayMinutes
            events  == StoreList(store, search_start, search_end)
            matched == SelectSeq(events, LAMBDA e :
                          /\ IsSubstring(title_keyword, e.summary)
                          /\ Abs(e.start - target_date) <= ToleranceMinutes)
            target_event == matched[1]
            new_end_time ==
                DurationNewEndTime(target_event.start * SecondsPerMinute,
                                   duration_minutes) \div SecondsPerMinute
            conflicts == DurationConflicts(events, target_event, new_end_time)
            r(ns, ne, ok, kind, ids, tgt, calls) ==
                UpdateResult("duration", target_date, duration_minutes, title_keyword,
                             ns, ne, ok, kind, ids,
                             IF l = "ok" THEN IdsOf(SeqToSet(matched)) ELSE {},
                             tgt, calls)
        IN  /\ before' = store
            /\ landed => u = "timeout"
            /\ IF l # "ok"
               THEN /\ u = "ok"
                    /\ store' = store
                    /\ res' = r(0, 0, FALSE, "error", {}, 0, <<Call("list", l)>>)
               ELSE IF Candidates(matched) # "one"
               THEN /\ u = "ok"
                    /\ store' = store
                    /\ res' = r(0, 0, FALSE,
                                IF Candidates(matched) = "none" THEN "not_found"
                                                                ELSE "ambiguous",
                                {}, 0, <<Call("list", l)>>)
               ELSE IF conflicts # << >>
               THEN /\ u = "ok"
                    /\ store' = store
                    /\ res' = r(target_event.start, new_end_time, FALSE, "conflict",
                                {conflicts[1].id}, target_event.id, <<Call("list", l)>>)
               ELSE /\ store' = IF u = "ok" \/ landed
                                THEN StoreUpdate(store, target_event.id,
                                                 target_event.start, new_end_time, NoTitle)
                                ELSE store
                    /\ res' = r(target_event.start, new_end_time, u = "ok",
                                IF u = "ok" THEN "ok" ELSE "error", {}, target_event.id,
                                <<Call("list", l), Call("update", u)>>)

\* The loop of CalendarChat.delete_event from event k on: the first delete
\* call that fails ends the request with False.
RECURSIVE ChatDeleteLoop(_, _, _, _, _)
ChatDeleteLoop(st, events, k, douts, landed) ==
    IF k > Len(events) THEN [store |-> st, ok |-> TRUE, calls |-> << >>]
    ELSE LET i == events[k].id
         IN  IF douts[i] = "ok"
             THEN LET rest == ChatDeleteLoop(StoreDelete(st, i), events, k + 1,
                                             douts, landed)
                  IN  [rest EXCEPT !.calls = <<Call("delete", "ok")>> \o @]
             ELSE [store |-> IF i \in landed THEN StoreDelete(st, i) ELSE st,
                   ok |-> FALSE, calls |-> <<Call("delete", douts[i])>>]

\* CalendarChat.delete_event(start_time, end_time)
ChatDeleteEvent ==
    /\ Idle
    /\ UNCHANGED <<msg, adds, db>>
    /\ \E iv \in Intervals, l \in Outcomes, douts \in [Ids -> Outcomes],
          landed \in SUBSET Ids :
        LET events == ChatGetEvents(store, iv[1], iv[2], l)
            ids    == IdsOf(SeqToSet(events))
            loop   == ChatDeleteLoop(store, events, 1, douts, landed)
        IN  /\ before' = store
            /\ \A i \in Ids \ ids : douts[i] = "ok"
            /\ landed \subseteq { i \in ids : douts[i] = "timeout" }
            /\ IF events = << >>
               THEN /\ store' = store
                    /\ res' = Result("chat_delete", iv[1], iv[2], NoTitle, FALSE,
                                     "not_found", {}, <<Call("list", l)>>, 0)
               ELSE /\ store' = loop.store
                    /\ res' = Result("chat_delete", iv[1], iv[2], NoTitle, loop.ok,
                                     IF loop.ok THEN "ok" ELSE "error", ids,
                                     <<Call("list", l)>> \o loop.calls,
                                     Cardinality(store) - Cardinality(loop.store))

(***************************************************************************)
(* The message parser (message_parser.py).  A text is a sequence of        *)
(* tokens, each standing for a fixed piece of Japanese text:               *)
(*   "kyou" (today), "ashita" (tomorrow), "ashita_hira" (tomorrow, written *)
(*   in hiragana), "kinou" (yesterday), "15ji" "16ji" "25ji" (N o'clock),  *)
(*   "5gatsu2nichi" (May 2nd, the day after day 0), "yokujitsu" (the next  *)
(*   day), "kara" (from), "made" (until), "no" "wo" "ni" (particles),      *)
(*   "kaigi"                                                               *)
(*   (meeting), "yotei" (schedule), "tsuika" (add), "sakujo" (delete),     *)
(*   "henkou" (change), "oshiete" (tell me), "shite" "shita" (do, did),    *)
(*   "KYANSERU" "kyanseru" (cancel, in katakana and in hiragana).          *)
(* "keyword in text" and re.search are computed on the token sequences.    *)
(***************************************************************************)
MaxLen == 2

Words == { "kyou", "ashita_hira", "15ji", "25ji", "kaigi", "tsuika", "sakujo",
           "henkou", "yotei", "oshiete" }

RECURSIVE SeqsUpTo(_, _)
SeqsUpTo(S, n) ==
    IF n = 0 THEN { << >> }
    ELSE LET shorter == SeqsUpTo(S, n - 1)
         IN  shorter \cup { Append(q, w) : q \in shorter, w \in S }

Sentences ==
    { <<"ashita", "no", "15ji", "kara", "16ji", "made", "kaigi", "wo", "tsuika", "shite">>,
      <<"kyou", "no", "yotei", "wo", "oshiete">>,
      <<"yotei", "wo", "oshiete">>,
      <<"kinou", "tsuika", "shita", "kaigi", "wo", "sakujo", "shite">>,
      <<"kaigi", "wo", "KYANSERU">>,
      <<"15ji", "kara", "kaigi">>,
      <<"kaigi", "wo", "16ji", "ni", "henkou">>,
      <<"16ji", "kara", "15ji", "kaigi", "wo", "tsuika">>,
      <<"5gatsu2nichi", "15ji", "kara", "15ji", "kaigi", "wo", "tsuika">>,
      <<"5gatsu2nichi", "16ji", "kara", "15ji", "kaigi", "wo", "tsuika">>,
      <<"5gatsu2nichi", "16ji", "kara", "yokujitsu", "15ji", "kaigi", "wo", "tsuika">>,
      <<"5gatsu2nichi", "no", "yotei">> }

Messages == SeqsUpTo(Words, MaxLen) \cup Sentences

\* The clock readings of datetime.now(JST): 10:00 and 23:30 of day 0
Nows == { 600, 1410 }

Hour == ("15ji" :> 15) @@ ("16ji" :> 16) @@ ("25ji" :> 25)

IsHour(tok) == tok \in DOMAIN Hour

HoursPerDay == 24

MinutesPerHour == 60

\* datetime.combine(date, time(23, 59)) for the date of t
EndOfDay(t) == DayStart(t) + DayMinutes - 1

\* normalize_text: katakana becomes hiragana, and the hiragana words for
\* relative days become the kanji words.
NormalizeToken(tok) ==
    CASE tok = "ashita_hira" -> "ashita"
      [] tok = "KYANSERU"    -> "kyanseru"
      [] OTHER               -> tok

NormalizeText(text) == [i \in 1..Len(text) |-> NormalizeToken(text[i])]

ADD_KEYWORDS == { <<"tsuika">>, <<"wo", "tsuika">>, <<"tsuika", "shite">> }

DELETE_KEYWORDS == { <<"sakujo">>, <<"sakujo", "shite">>, <<"KYANSERU">>, <<"kyanseru">> }

UPDATE_KEYWORDS == { <<"henkou">> }

READ_KEYWORDS == { <<"yotei", "wo", "oshiete">>, <<"yotei", "wo">>, <<"yotei">>, <<"oshiete">> }

\* any(keyword in normalized_text for keyword in keywords)
ContainsAny(normalized_text, keywords) ==
    \E keyword \in keywords : IsSubstring(keyword, normalized_text)

Tokens(text) == { text[i] : i \in 1..Len(text) }

Min(S) == CHOOSE x \in S : \A y \in S : x <= y

NoDatetime == [found |-> FALSE, start_time |-> 0, end_time |-> 0, date_only |-> FALSE]

Datetime(s, e, d) == [found |-> TRUE, start_time |-> s, end_time |-> e, date_only |-> d]

\* The day a date of the text falls on, counted from day 0.  The dates of
\* this model are not before the day of the clock, so the year stays the same.
DayOf == ("5gatsu2nichi" :> 1)

IsDate(tok) == tok \in DOMAIN DayOf

\* The date and time branch of extract_datetime_from_message: a date directly
\* followed by a time at index k.  The end is the first time after "kara",
\* on the next day when the text says so or when it would lie before the
\* start; without one the event lasts an hour.
ExtractDateAndTime(normalized_message, k) ==
    LET m == normalized_message
        base_date == DayOf[m[k]] * DayMinutes
        hour == Hour[m[k + 1]]
        start_time == base_date + hour * MinutesPerHour
        ends == { i \in 1..(Len(m) - 1) :
                    /\ m[i] = "kara"
                    /\ \/ IsHour(m[i + 1])
                       \/ m[i + 1] = "yokujitsu" /\ i + 2 <= Len(m) /\ IsHour(m[i + 2]) }
        i == Min(ends)
        end_hour == IF IsHour(m[i + 1]) THEN Hour[m[i + 1]] ELSE Hour[m[i + 2]]
        is_next_day == "yokujitsu" \in Tokens(m)
        end_date == IF is_next_day THEN base_date + DayMinutes ELSE base_date
        end_time == end_date + end_hour * MinutesPerHour
    IN  IF hour >= HoursPerDay THEN NoDatetime
        ELSE IF ends = {} THEN Datetime(start_time, start_time + MinutesPerHour, FALSE)
        ELSE IF end_hour >= HoursPerDay THEN NoDatetime
        ELSE IF ~is_next_day /\ end_time < start_time
        THEN Datetime(start_time, end_time + DayMinutes, FALSE)
        ELSE Datetime(start_time, end_time, FALSE)

\* extract_datetime_from_message(text): the words for today and tomorrow
\* give the whole day, and so does a date without a time; otherwise the first
\* time of the text, or the time of the clock when there is none, runs to
\* 23:59 of today.  time(hour, minute) raises for an hour above 23 and the
\* function then returns None.
ExtractDatetimeFromMessage(text, now) ==
    LET normalized_message == NormalizeText(text)
        hours  == { i \in 1..Len(normalized_message) : IsHour(normalized_message[i]) }
        hour   == IF hours # {} THEN Hour[normalized_message[Min(hours)]]
                  ELSE (now % DayMinutes) \div MinutesPerHour
        minute == IF hours # {} THEN 0 ELSE now % MinutesPerHour
        dates  == { i \in 1..Len(normalized_message) : IsDate(normalized_message[i]) }
        datetimes == { i \in dates : i < Len(normalized_message)
                                      /\ IsHour(normalized_message[i + 1]) }
    IN  IF "kyou" \in Tokens(normalized_message)
        THEN Datetime(DayStart(now), EndOfDay(now), TRUE)
        ELSE IF "ashita" \in Tokens(normalized_message)
        THEN Datetime(DayStart(now) + DayMinutes, EndOfDay(now) + DayMinutes, TRUE)
        ELSE IF datetimes # {}
        THEN ExtractDateAndTime(normalized_message, Min(datetimes))
        ELSE IF dates # {}
        THEN Datetime(DayOf[normalized_message[Min(dates)]] * DayMinutes,
                      DayOf[normalized_message[Min(dates)]] * DayMinutes + DayMinutes - 1,
                      TRUE)
        ELSE IF hour >= HoursPerDay
        THEN NoDatetime
        ELSE Datetime(DayStart(now) + hour * MinutesPerHour + minute, EndOfDay(now), FALSE)

\* remove_datetime_expressions drops the dates, the times, the relative days
\* and the words "kara", "made" and "yokujitsu".
IsDatetimeExpression(tok) ==
    \/ IsHour(tok) \/ IsDate(tok)
    \/ tok \in {"kyou", "ashita", "kinou", "kara", "made", "yokujitsu"}

RemoveDatetimeExpressions(text) ==
    SelectSeq(text, LAMBDA tok : ~IsDatetimeExpression(tok))

Particles == {"wo", "no", "ni"}

RECURSIVE StripLeadingParticles(_)
StripLeadingParticles(title) ==
    IF title # << >> /\ Head(title) \in Particles
    THEN StripLeadingParticles(Tail(title)) ELSE title

\* re.sub(r'(?:particle)?<verb>$', '', title)
StripSuffix(title, verb) ==
    IF Len(title) >= Len(verb) /\ SubSeq(title, Len(title) - Len(verb) + 1, Len(title)) = verb
    THEN LET rest == SubSeq(title, 1, Len(title) - Len(verb))
         IN  IF rest # << >> /\ rest[Len(rest)] \in Particles
             THEN SubSeq(rest, 1, Len(rest) - 1) ELSE rest
    ELSE title

\* extract_title(text, operation_type): None for a read; otherwise the text
\* without its datetime expressions, leading particles and a final add verb.
ExtractTitle(text, operation_type) ==
    IF operation_type = "read" THEN NoTitle
    ELSE LET text_without_datetime == RemoveDatetimeExpressions(NormalizeText(text))
             t1 == StripLeadingParticles(text_without_datetime)
             t2 == StripSuffix(t1, <<"tsuika", "shite">>)
         IN  StripSuffix(t2, <<"tsuika">>)

\* extract_operation_type(text): the keyword tables are tried in the order
\* add, delete, update, read; a text that matches none is an add when it has
\* a datetime and a title.
ExtractOperationType(text, now) ==
    LET normalized_text == NormalizeText(text)
    IN  IF ContainsAny(normalized_text, ADD_KEYWORDS) THEN "add"
        ELSE IF ContainsAny(normalized_text, DELETE_KEYWORDS) THEN "delete"
        ELSE IF ContainsAny(normalized_text, UPDATE_KEYWORDS) THEN "update"
        ELSE IF ContainsAny(normalized_text, READ_KEYWORDS) THEN "read"
        ELSE IF ExtractDatetimeFromMessage(text, now).found
                /\ ExtractTitle(text, "none") # NoTitle
        THEN "add"
        ELSE "none"

Parsed(ok, op, title, dt) ==
    [ success |-> ok, operation_type |-> op, title |-> title,
      has_time |-> dt.found, start_time |-> dt.start_time, end_time |-> dt.end_time,
      date_only |-> dt.date_only ]

NoParsed == Parsed(FALSE, "none", NoTitle, NoDatetime)

\* parse_message(text)
ParseMessage(text, now) ==
    LET operation_type == ExtractOperationType(text, now)
        extracted == ExtractDatetimeFromMessage(text, now)
        datetime_info ==
            IF ~extracted.found /\ operation_type \in {"read", "check"}
            THEN Datetime(DayStart(now), EndOfDay(now), TRUE)
            ELSE extracted
    IN  IF ~datetime_info.found /\ operation_type = "add"
        THEN NoParsed
        ELSE Parsed(TRUE, operation_type, ExtractTitle(text, operation_type), datetime_info)

\* extract_time(message): the first "N ji kara M ji" range of the text, or
\* else the first time, taken on the date of the clock; a lone time lasts one
\* hour.  now.replace(hour=...) raises for an hour above 23 and the function
\* then returns no times and date_only True.
ExtractTime(message, now) ==
    LET m == NormalizeText(message)
        ranges == { i \in 1..(Len(m) - 2) :
                      IsHour(m[i]) /\ m[i + 1] = "kara" /\ IsHour(m[i + 2]) }
        starts == { i \in 1..(Len(m) - 1) : IsHour(m[i]) /\ m[i + 1] = "kara" }
        hours  == { i \in 1..Len(m) : IsHour(m[i]) }
        at(h)  == DayStart(now) + h * MinutesPerHour
        first  == IF starts # {} THEN Min(starts) ELSE Min(hours)
    IN  IF ranges # {}
        THEN LET sh == Hour[m[Min(ranges)]]
                 eh == Hour[m[Min(ranges) + 2]]
             IN  IF sh >= HoursPerDay \/ eh >= HoursPerDay
                 THEN Datetime(0, 0, TRUE)
                 ELSE Datetime(at(sh), at(eh), FALSE)
        ELSE IF hours # {}
        THEN IF Hour[m[first]] >= HoursPerDay
             THEN Datetime(0, 0, TRUE)
             ELSE Datetime(at(Hour[m[first]]), at(Hour[m[first]]) + MinutesPerHour, FALSE)
        ELSE Datetime(DayStart(now), EndOfDay(now), TRUE)

(***************************************************************************)
(* handle_message (app.py)                                                 *)
(***************************************************************************)
Request(call, s, e, t) == [call |-> call, start_time |-> s, end_time |-> e, title |-> t]

NoRequest == Request("none", 0, 0, NoTitle)

\* The call handle_message makes on the calendar manager for a parsed
\* message.  An update never gets to the manager, because parse_message puts
\* no 'datetime' entry in its result; a delete without times raises KeyError
\* and is answered as a failure.
HandleMessageRequestDefaultRead(text, now, result) ==
    Request("get_events", DayStart(now), EndOfDay(now), NoTitle)

HandleMessageRequest(text, now, result) ==
    LET operation_type == result.operation_type
        time_info == ExtractTime(text, now)
    IN  CASE operation_type \in {"read", "check"} ->
               IF result.date_only
               THEN Request("get_events", DayStart(result.start_time),
                            EndOfDay(result.start_time), NoTitle)
               ELSE Request("get_events", result.start_time, result.end_time, NoTitle)
          [] operation_type = "add" ->
               IF ~time_info.date_only
               THEN Request("add_event", time_info.start_time, time_info.end_time,
                            result.title)
               ELSE Request("add_event", result.start_time, result.end_time, result.title)
          [] operation_type = "delete" /\ result.has_time ->
               Request("delete_event", result.start_time, result.end_time, result.title)
          [] OTHER -> NoRequest

\* seq counts the text messages received so far.
\* replies counts the reply_message calls made for the message.
Message(seq, text, now, op, result, request, replies) ==
    [ seq |-> seq, text |-> text, now |-> now, operation_type |-> op,
      parsed |-> result, request |-> request, replies |-> replies ]

NoMessage(seq) == Message(seq, << >>, 0, "none", NoParsed, NoRequest, 0)

\* the text handle_message compares with after it has answered
TodaySchedule == <<"kyou", "no", "yotei", "wo", "oshiete">>

\* The reply_message calls of handle_message: one on every path of its
\* try block or of the except clause, and one more in the block that
\* follows for the text TodaySchedule.
ReplyMessageCalls(text) == IF text = TodaySchedule THEN 2 ELSE 1

MaxMessages == 1

\* handle_message(event): the text is parsed and the calendar manager is
\* called for the operation found.
HandleMessage ==
    /\ Idle
    /\ msg.seq < MaxMessages
    /\ \E text \in Messages, now \in Nows :
        LET result  == ParseMessage(text, now)
            request == HandleMessageRequest(text, now, result)
        IN  /\ UNCHANGED <<adds, db>>
            /\ msg' = Message(msg.seq + 1, text, now, ExtractOperationType(text, now),
                             result, request, ReplyMessageCalls(text))
            /\ IF request.call = "add_event"
               THEN AddEventCall(request.start_time, request.end_time, request.title)
               ELSE IF request.call = "get_events"
               THEN ReadEventsCall(request.start_time, request.end_time, request.title)
               ELSE IF request.call = "delete_event"
               THEN DeleteEventCall(request.start_time, request.end_time, request.title)
               ELSE /\ before' = store
                    /\ store' = store
                    /\ res' = Result("reply", 0, 0, NoTitle, FALSE,
                                     IF result.operation_type = "update"
                                     THEN "missing_datetime" ELSE "error",
                                     {}, << >>, 0)

(***************************************************************************)
(* Free time (get_free_time_slots of calendar_chat.py and get_free_time of *)
(* calendar_operations.py)                                                 *)
(***************************************************************************)
\* The walk both functions make over the events from event k on: a gap of at
\* least min_duration before an event is a slot, current_time then jumps to
\* the event's end, and what is left up to time_max is a last slot.
RECURSIVE FreeSlotsFrom(_, _, _, _, _)
FreeSlotsFrom(events, k, current_time, time_max, min_duration) ==
    IF k > Len(events)
    THEN IF time_max - current_time >= min_duration
         THEN << [start |-> current_time, end |-> time_max] >>
         ELSE << >>
    ELSE LET gap == IF events[k].start - current_time >= min_duration
                    THEN << [start |-> current_time, end |-> events[k].start] >>
                    ELSE << >>
         IN  gap \o FreeSlotsFrom(events, k + 1, events[k].end, time_max, min_duration)

FreeResult(op, s, e, min_duration, slots, calls) ==
    Result(op, s, e, NoTitle, TRUE, "ok", {}, calls, Len(slots))
        @@ [slots |-> slots, min_duration |-> min_duration]

\* the shortest slots asked for: 30 minutes (the default) and an hour
MinDurations == {30, 60}

\* CalendarChat.get_free_time_slots(date, min_duration) for day 0: time_max is
\* 23:59:59.999999, minute 1439 of the day.
GetFreeTimeSlots ==
    /\ Idle
    /\ UNCHANGED <<msg, adds, db>>
    /\ \E min_duration \in MinDurations, o \in Outcomes :
        LET time_min == 0
            time_max == DayMinutes - 1
            events == ChatGetEvents(store, time_min, time_max + 1, o)
            free_slots == FreeSlotsFrom(events, 1, time_min, time_max, min_duration)
        IN  /\ before' = store
            /\ store' = store
            /\ res' = FreeResult("free_slots", time_min, time_max, min_duration, free_slots,
                                 <<Call("list", o)>>)

\* get_free_time calls the coroutine function get_events without awaiting it:
\* what it gets is a coroutine object, which the for loop cannot iterate.
GetFreeTimeEventsIterable == FALSE

\* CalendarManager.get_free_time(start_time, end_time, duration): the
\* TypeError of the loop is caught and [] is returned; the list call of
\* get_events is never made.
GetFreeTime ==
    /\ Idle
    /\ UNCHANGED <<msg, adds, db>>
    /\ \E duration \in MinDurations, o \in Outcomes :
        LET start_time == 0
            end_time == DayMinutes - 1
            events == ChatGetEvents(store, start_time, end_time, o)
        IN  /\ before' = store
            /\ store' = store
            /\ IF GetFreeTimeEventsIterable
               THEN res' = FreeResult("free_time", start_time, end_time, duration,
                                      FreeSlotsFrom(events, 1, start_time, end_time, duration),
                                      <<Call("list", o)>>)
               ELSE /\ o = "ok"
                    /\ res' = FreeResult("free_time", start_time, end_time, duration, << >>, << >>)

(***************************************************************************)
(* normalize_text, character by character                                  *)
(***************************************************************************)
\* A text is a sequence of characters.  "a", "shi", "ta", "su", "no", "sa"
\* are hiragana and "raishuu" stands for the five hiragana of that word;
\* "A" is the full-width katakana of "a" and "hA" its half-width form;
\* "chouon" is the full-width long-vowel mark and "hchouon" its half-width
\* form; "z1" is a full-width digit and "1" the ASCII digit; the "_kanji"
\* characters are the kanji words the replacements write.
MaxChars == 3

Chars == { "a", "shi", "ta", "su", "no", "sa", "raishuu", "A", "hA",
           "chouon", "hchouon", "z1", "1" }

CharTexts == UNION { [1..n -> Chars] : n \in 0..MaxChars }

\* jaconv.h2z(text, kana=True): half-width katakana become full-width
H2Z(c) ==
    CASE c = "hA"      -> "A"
      [] c = "hchouon" -> "chouon"
      [] OTHER         -> c

\* jaconv.kata2hira(text): full-width katakana letters become hiragana; the
\* long-vowel mark is no letter and stays
Kata2Hira(c) == IF c = "A" THEN "a" ELSE c

\* jaconv.z2h(text, ascii=True, digit=True), kana=True being the default:
\* full-width digits become ASCII and the full-width katakana that are
\* left become half-width
Z2H(c) ==
    CASE c = "z1"     -> "1"
      [] c = "A"      -> "hA"
      [] c = "chouon" -> "hchouon"
      [] OTHER        -> c

IsPrefixAt(text, i, old) ==
    /\ i + Len(old) - 1 <= Len(text)
    /\ \A j \in 1..Len(old) : text[i + j - 1] = old[j]

\* str.replace(old, new) from position i on: every occurrence of old, left
\* to right, none overlapping another
RECURSIVE ReplaceFrom(_, _, _, _)
ReplaceFrom(text, i, old, new) ==
    IF i > Len(text) THEN << >>
    ELSE IF IsPrefixAt(text, i, old)
    THEN new \o ReplaceFrom(text, i + Len(old), old, new)
    ELSE <<text[i]>> \o ReplaceFrom(text, i + 1, old, new)

ReplaceFirstOnly(text, old, new) ==
    LET at == { i \in 1..Len(text) : IsPrefixAt(text, i, old) }
        k  == CHOOSE i \in at : \A j \in at : i <= j
    IN  IF at = {} THEN text
        ELSE SubSeq(text, 1, k - 1) \o new \o SubSeq(text, k + Len(old), Len(text))

Replace(text, old, new) == ReplaceFrom(text, 1, old, new)

\* The replacements of normalize_text that can match a text of Chars, in the
\* order of the code: ashita, asu, raishuu, saraishuu, then the same words
\* followed by "no".
Replacements ==
    << << <<"a", "shi", "ta">>,       <<"ashita_kanji">> >>,
       << <<"a", "su">>,              <<"ashita_kanji">> >>,
       << <<"raishuu">>,              <<"raishuu_kanji">> >>,
       << <<"sa", "raishuu">>,        <<"saraishuu_kanji">> >>,
       << <<"a", "shi", "ta", "no">>, <<"ashita_kanji", "no">> >>,
       << <<"a", "su", "no">>,        <<"ashita_kanji", "no">> >>,
       << <<"raishuu", "no">>,        <<"raishuu_kanji", "no">> >>,
       << <<"sa", "raishuu", "no">>,  <<"saraishuu_kanji", "no">> >> >>

RECURSIVE ReplaceAll(_, _)
ReplaceAll(text, k) ==
    IF k > Len(Replacements) THEN text
    ELSE ReplaceAll(Replace(text, Replacements[k][1], Replacements[k][2]), k + 1)

\* normalize_text(text)
NormalizeChars(text) ==
    ReplaceAll([i \in 1..Len(text) |-> Z2H(Kata2Hira(H2Z(text[i])))], 1)

\* normalize_text(text) is called on a text; it has no failing path.
NormalizeTextCall ==
    /\ Idle
    /\ msg.seq < MaxMessages
    /\ \E text \in CharTexts :
        /\ UNCHANGED <<adds, db>>
        /\ msg' = Message(msg.seq + 1, text, 0, "normalize", NoParsed, NoRequest, 0)
        /\ res' = Result("normalize", 0, 0, NormalizeChars(text), TRUE, "ok", {}, << >>, 0)
        /\ before' = store
        /\ store' = store

(***************************************************************************)
(* The new end of an updated event, to the second                          *)
(***************************************************************************)
\* 15:00:00, 15:00:30, 15:10:00, 15:10:45 and 15:30:00, 15:30:30, 16:00:00,
\* 16:00:15 in seconds of the day: the calendar is shared and its events
\* need not start or end on a full minute.
EventStartSeconds == { 54000, 54030, 54600, 54645 }

EventEndSeconds == { 55800, 55830, 57600, 57615 }

NewStartSeconds == { 57600, 57630, 61200 }

EndTimeResult(op, target_start, target_end, new_start_time, new_end_time, new_duration) ==
    UpdateResult(op, target_start, target_end, NoTitle, new_start_time, new_end_time,
                 TRUE, "ok", {}, {}, 0, << >>) @@ [new_duration |-> new_duration]

\* reschedule_event from target_event = events[0] to the end of its
\* computation of new_end_time
RescheduleEndTime ==
    /\ Idle
    /\ UNCHANGED <<msg, adds, db>>
    /\ \E target_start \in EventStartSeconds, target_end \in EventEndSeconds,
          new_start_time \in NewStartSeconds, new_duration \in Durations \cup {NoDuration} :
        /\ before' = store
        /\ store' = store
        /\ res' = EndTimeResult("reschedule_end_time", target_start, target_end,
                                new_start_time,
                                RescheduleNewEndTime(target_start, target_end,
                                                     new_start_time, new_duration),
                                new_duration)

\* update_event_duration's computation of new_end_time
DurationEndTime ==
    /\ Idle
    /\ UNCHANGED <<msg, adds, db>>
    /\ \E target_start \in EventStartSeconds, target_end \in EventEndSeconds,
          duration_minutes \in Durations :
        /\ before' = store
        /\ store' = store
        /\ res' = EndTimeResult("duration_end_time", target_start, target_end,
                                target_start,
                                DurationNewEndTime(target_start, duration_minutes),
                                duration_minutes)

(***************************************************************************)
(* Add requests handled in parallel.  The webhook handles every message in *)
(* a thread of its own; add_event runs its overlap check, waits for it,    *)
(* and then issues the insert: another request can run in between.         *)
(***************************************************************************)
AddRequests == {1, 2}

\* pc: "off" (no request), "start", "checked" (the overlap check has
\* returned), "done" (add_event has returned)
AddRequest(pc, s, e, t, overlapping, calls, ok, kind) ==
    [ pc |-> pc, start |-> s, end |-> e, title |-> t, overlapping |-> overlapping,
      calls |-> calls, success |-> ok, kind |-> kind ]

NoAdds == [r \in AddRequests |-> AddRequest("off", 0, 0, NoTitle, {}, << >>, FALSE, "none")]

\* add_event up to the return of _check_overlapping_events
AddCheckStep(r) ==
    /\ adds[r].pc = "start"
    /\ \E o \in Outcomes :
        LET chk == CheckOverlappingEvents(store, adds[r].start, adds[r].end,
                                          adds[r].title, Always(o))
        IN  adds' = [adds EXCEPT ![r] =
                        [@ EXCEPT !.pc = "checked",
                                  !.overlapping = IdsOf(SeqToSet(chk.overlapping)),
                                  !.calls = chk.calls]]
    /\ UNCHANGED <<store, before, res, msg, db>>

\* add_event from the test of overlapping_events to its return
AddInsertStep(r) ==
    /\ adds[r].pc = "checked"
    /\ UNCHANGED <<before, res, msg, db>>
    /\ IF adds[r].overlapping # {}
       THEN /\ store' = store
            /\ adds' = [adds EXCEPT ![r] =
                           [@ EXCEPT !.pc = "done", !.success = FALSE, !.kind = "conflict"]]
       ELSE /\ HasFreeId(store)
            /\ \E c \in Outcomes, landed \in BOOLEAN :
                /\ landed => c = "timeout"
                /\ store' = IF c = "ok" \/ landed
                            THEN StoreInsert(store, adds[r].title, adds[r].start, adds[r].end)
                            ELSE store
                /\ adds' = [adds EXCEPT ![r] =
                               [@ EXCEPT !.pc = "done", !.success = (c = "ok"),
                                         !.kind = IF c = "ok" THEN "ok" ELSE c,
                                         !.calls = Append(@, Call("insert", c))]]

(***************************************************************************)
(* DatabaseManager (database.py): the users table                          *)
(***************************************************************************)
UserIds == { "u1", "u2" }

\* what a sqlite3 call does: it is carried out, or it raises
DatabaseOutcomes == { "ok", "error" }

\* the values of the is_authorized column: DEFAULT 0, and 1 once set
NotAuthorized == 0

Authorized == 1

\* The row of a user: whether the table has one, and its is_authorized
\* column.
Row(exists, is_authorized) == [exists |-> exists, is_authorized |-> is_authorized]

NoRow == Row(FALSE, NotAuthorized)

DatabaseCall(op, user_id, returned) == [op |-> op, user_id |-> user_id, returned |-> returned]

\* rows is the table; call is the last call with what it returned;
\* authorized_ok are the users for whom authorize_user has returned True.
Database(rows, call, authorized_ok) ==
    [rows |-> rows, call |-> call, authorized_ok |-> authorized_ok]

\* _initialize_database: CREATE TABLE IF NOT EXISTS users
NoDatabase ==
    Database([u \in UserIds |-> NoRow], DatabaseCall("none", "", FALSE), {})

\* INSERT OR IGNORE INTO users (user_id, name, email): a row that exists is
\* left as it is
InsertOrIgnore(rows, user_id) ==
    IF rows[user_id].exists THEN rows
    ELSE [rows EXCEPT ![user_id] = Row(TRUE, NotAuthorized)]

\* UPDATE users SET is_authorized = 1 WHERE user_id = ?: no row, no change
UpdateAuthorized(rows, user_id) ==
    IF rows[user_id].exists THEN [rows EXCEPT ![user_id] = Row(TRUE, Authorized)]
    ELSE rows

\* SELECT is_authorized FROM users WHERE user_id = ?, then
\* bool(result[0]) if result else False
IsAuthorized(rows, user_id) ==
    IF rows[user_id].exists THEN rows[user_id].is_authorized # 0 ELSE FALSE

\* add_user(user_id)
AddUser ==
    /\ \E user_id \in UserIds, o \in DatabaseOutcomes :
        db' = Database(IF o = "ok" THEN InsertOrIgnore(db.rows, user_id) ELSE db.rows,
                       DatabaseCall("add_user", user_id, o = "ok"),
                       db.authorized_ok)
    /\ UNCHANGED <<store, before, res, msg, adds>>

\* authorize_user(user_id): True unless the statement raised
AuthorizeUser ==
    /\ \E user_id \in UserIds, o \in DatabaseOutcomes :
        db' = Database(IF o = "ok" THEN UpdateAuthorized(db.rows, user_id) ELSE db.rows,
                       DatabaseCall("authorize_user", user_id, o = "ok"),
                       IF o = "ok" THEN db.authorized_ok \cup {user_id}
                                   ELSE db.authorized_ok)
    /\ UNCHANGED <<store, before, res, msg, adds>>

\* is_authorized(user_id), as require_auth calls it: False when the query
\* raised
IsAuthorizedCall ==
    /\ \E user_id \in UserIds, o \in DatabaseOutcomes :
        db' = Database(db.rows,
                       DatabaseCall("is_authorized", user_id,
                                    o = "ok" /\ IsAuthorized(db.rows, user_id)),
                       db.authorized_ok)
    /\ UNCHANGED <<store, before, res, msg, adds>>

\* The result is turned into the reply text and sent; nothing of the request
\* is kept.
Reply ==
    /\ ~Idle
    /\ res' = NoResult
    /\ before' = store
    /\ store' = store
    /\ msg' = NoMessage(msg.seq)
    /\ UNCHANGED <<adds, db>>

(***************************************************************************)
(* Specification                                                           *)
(***************************************************************************)
Init ==
    /\ store \in { S \in SUBSET EventValues : UniqueIds(S) }
    /\ before = store
    /\ res = NoResult
    /\ msg = NoMessage(0)
    /\ adds = NoAdds
    /\ db = NoDatabase

\* A calendar of at most one event, for the text messages
InitParse ==
    /\ store \in { S \in SUBSET EventValues : Cardinality(S) <= 1 }
    /\ before = store
    /\ res = NoResult
    /\ msg = NoMessage(0)
    /\ adds = NoAdds
    /\ db = NoDatabase

\* Requests that add to or read the calendar
NextAdd ==
    \/ AddEvent
    \/ ReadEvents
    \/ CheckOverlapping
    \/ Reply

\* Requests that move or lengthen an event
NextUpdate ==
    \/ ManagerUpdateEvent
    \/ RescheduleEvent
    \/ UpdateEventDuration
    \/ Reply

\* Requests that delete events
NextDelete ==
    \/ DeleteEvent
    \/ ChatDeleteEvent
    \/ Reply

\* 00:00-12:00, 12:00-24:00, 00:00-24:00, 09:00-10:00, 09:30-10:30, 23:00-24:00
FreeIntervals ==
    { <<0, 720>>, <<720, 1440>>, <<0, 1440>>, <<540, 600>>, <<570, 630>>, <<1380, 1440>> }

\* A calendar whose events lie anywhere in day 0, for the free-time requests
InitFree ==
    /\ store \in { S \in SUBSET { Event(i, <<"a">>, iv[1], iv[2]) : i \in Ids, iv \in FreeIntervals } :
                     UniqueIds(S) }
    /\ before = store
    /\ res = NoResult
    /\ msg = NoMessage(0)
    /\ adds = NoAdds
    /\ db = NoDatabase

\* Requests for free time
NextFree ==
    \/ GetFreeTimeSlots
    \/ GetFreeTime
    \/ Reply

\* normalize_text reads no calendar: an empty one will do
InitNormalize ==
    /\ store = {}
    /\ before = store
    /\ res = NoResult
    /\ msg = NoMessage(0)
    /\ adds = NoAdds
    /\ db = NoDatabase

\* Texts given to normalize_text
NextNormalize ==
    \/ NormalizeTextCall
    \/ Reply

\* Two add requests for the same interval and title arrive together; the
\* calendar leaves room for both events.
InitConcurrentAdd ==
    /\ store \in { S \in SUBSET EventValues :
                     UniqueIds(S) /\ Cardinality(S) + Cardinality(AddRequests) <= MaxEvents }
    /\ before = store
    /\ res = NoResult
    /\ msg = NoMessage(0)
    /\ \E iv \in Intervals, title \in Titles \cup {NoTitle} :
          adds = [r \in AddRequests |->
                    AddRequest("start", iv[1], iv[2], title, {}, << >>, FALSE, "none")]
    /\ db = NoDatabase

NextConcurrentAdd ==
    \E r \in AddRequests :
        \/ AddCheckStep(r)
        \/ AddInsertStep(r)

\* The calls on the users table
NextDatabase ==
    \/ AddUser
    \/ AuthorizeUser
    \/ IsAuthorizedCall

\* The end times of updates
NextEndTime ==
    \/ RescheduleEndTime
    \/ DurationEndTime
    \/ Reply

\* Text messages
NextParse ==
    \/ HandleMessage
    \/ Reply

Next == NextAdd \/ NextUpdate \/ NextDelete \/ NextParse \/ NextFree \/ NextNormalize
        \/ NextEndTime \/ NextConcurrentAdd \/ NextDatabase

Spec == Init /\ [][Next]_vars

SpecAdd == Init /\ [][NextAdd]_vars

SpecUpdate == Init /\ [][NextUpdate]_vars

SpecDelete == Init /\ [][NextDelete]_vars

SpecParse == InitParse /\ [][NextParse]_vars

SpecFree == InitFree /\ [][NextFree]_vars

SpecNormalize == InitNormalize /\ [][NextNormalize]_vars

SpecEndTime == InitNormalize /\ [][NextEndTime]_vars

SpecConcurrentAdd == InitConcurrentAdd /\ [][NextConcurrentAdd]_vars

SpecDatabase == InitNormalize /\ [][NextDatabase]_vars

TypeOK ==
    /\ UniqueIds(store)
    /\ Cardinality(store) <= MaxEvents

(***************************************************************************)
(* Properties                                                              *)
(***************************************************************************)
\* The half-open intervals [s, e) of an event and [S, E) intersect.
Intersects(ev, S, E) == ev.start < E /\ ev.end > S

Intersecting(st, S, E) == { ev.id : ev \in { x \in st : Intersects(x, S, E) } }

AllCallsOk(calls) == \A k \in 1..Len(calls) : calls[k].outcome = "ok"

ListCalls(calls) == { k \in 1..Len(calls) : calls[k].call = "list" }

\* C1: when the calendar holds an event whose interval intersects the interval
\* of the event to add, and the list call answered, add_event fails with a
\* conflict list that contains that event, and no insert call is issued.
C1_AddConflictRejected ==
    (/\ res.op = "add"
     /\ \A k \in ListCalls(res.calls) : res.calls[k].outcome = "ok"
     /\ Intersecting(before, res.start, res.end) # {})
    => /\ ~res.success
       /\ res.kind = "conflict"
       /\ Intersecting(before, res.start, res.end) \subseteq res.ids
       /\ "insert" \notin CallNames(res.calls)
       /\ store = before

\* C2: when the list call of add_event's conflict check times out on every
\* attempt, add_event fails with the transient failure, issues no insert call
\* and leaves the calendar as it was.
C2_AddFailsWhenListUnavailable ==
    (/\ res.op = "add"
     /\ \A k \in ListCalls(res.calls) : res.calls[k].outcome = "timeout")
    => /\ ~res.success
       /\ res.kind = "timeout"
       /\ "insert" \notin CallNames(res.calls)
       /\ store = before

\* C4: an update that found no candidate or more than one candidate fails,
\* issues no update call and leaves the calendar as it was.
C4_UpdateNeverGuesses ==
    (/\ res.op \in {"update", "reschedule", "duration"}
     /\ Cardinality(res.cands) # 1)
    => /\ ~res.success
       /\ "update" \notin CallNames(res.calls)
       /\ store = before

\* C5: the conflict list computed for an update never contains the event
\* being updated, and an update whose new interval intersects no event but the
\* updated event itself is not rejected as a conflict.
C5_SelfExclusion ==
    (res.op \in {"reschedule", "duration"} /\ res.target # 0)
    => /\ res.target \notin res.ids
       /\ (Intersecting(before, res.nstart, res.nend) \subseteq {res.target}
             => res.kind # "conflict")

\* C5 witness: a reschedule that succeeded although the new interval
\* intersects the interval the event had before.
C5_Witness ==
    /\ res.op = "reschedule"
    /\ res.success
    /\ \E ev \in before : /\ ev.id = res.target
                          /\ ev.start # res.nstart
                          /\ Intersects(ev, res.nstart, res.nend)
    /\ \E ev \in store : ev.id = res.target /\ ev.start = res.nstart /\ ev.end = res.nend

\* C6: in every conflict check whose list call answered, the events reported
\* are exactly the events of the calendar (other than the event being
\* updated) with s < E and e > S for the checked interval [S, E).
C6_OverlapRule ==
    /\ (res.op \in {"add", "check"} /\ AllCallsOk(SelectSeq(res.calls, LAMBDA c : c.call = "list")))
         => res.ids = Intersecting(before, res.start, res.end)
    /\ (res.op = "reschedule" /\ res.target # 0 /\ AllCallsOk(SelectSeq(res.calls, LAMBDA c : c.call = "list")))
         => res.ids = Intersecting(before, res.nstart, res.nend) \ {res.target}

\* C7: a request is reported as successful only when every remote call it
\* made succeeded; when one failed the request fails.
C7_FailureReported ==
    (res.op \in {"delete", "chat_delete"} /\ ~AllCallsOk(res.calls)) => ~res.success

\* C8: a read makes at most StopAfterAttempt list calls, every call that is
\* followed by another one failed transiently, and a list call that timed out
\* is followed by another attempt as long as attempts are left.
C8_BoundedRetry ==
    res.op = "read"
    => /\ Len(res.calls) <= StopAfterAttempt
       /\ \A k \in 1..(Len(res.calls) - 1) : res.calls[k].outcome = "timeout"
       /\ (res.calls[Len(res.calls)].outcome = "timeout"
             => Len(res.calls) = StopAfterAttempt)

\* A text message has been handled and not yet answered.
Handled == msg.text # << >> /\ res # NoResult

\* The highest-ranked operation, in the order update, delete, add, read, among
\* those whose keyword table matches the text.
HighestRanked(normalized_text) ==
    IF ContainsAny(normalized_text, UPDATE_KEYWORDS) THEN "update"
    ELSE IF ContainsAny(normalized_text, DELETE_KEYWORDS) THEN "delete"
    ELSE IF ContainsAny(normalized_text, ADD_KEYWORDS) THEN "add"
    ELSE IF ContainsAny(normalized_text, READ_KEYWORDS) THEN "read"
    ELSE "none"

\* C3: the classifier returns the highest-ranked operation in the order
\* update > delete > add > read among those whose keyword table matches the
\* text; a text with an add keyword and a delete keyword is a delete.
C3_ClassifierPrecedence ==
    (Handled /\ HighestRanked(NormalizeText(msg.text)) # "none")
    => msg.operation_type = HighestRanked(NormalizeText(msg.text))

\* "ashita no 15ji kara 16ji made kaigi wo tsuika shite"
AddTomorrowSentence ==
    <<"ashita", "no", "15ji", "kara", "16ji", "made", "kaigi", "wo", "tsuika", "shite">>

\* C9: for the text "tomorrow from 15 to 16 o'clock add a meeting" received at
\* 10:00 of day 0, the calendar manager is asked to add an event titled
\* "kaigi" from 15:00 to 16:00 of day 1.
C9_AddTomorrowRange ==
    (Handled /\ msg.text = AddTomorrowSentence /\ msg.now = 600)
    => /\ msg.operation_type = "add"
       /\ msg.request.call = "add_event"
       /\ msg.request.start_time = DayMinutes + 900
       /\ msg.request.end_time = DayMinutes + 960
       /\ msg.request.title = <<"kaigi">>

\* C10: a text classified as read always parses successfully, and when it has
\* no date or time expression, or only the word for today, the time range is
\* today from 00:00 to 23:59 with date_only set.
C10_ReadDefaultsToToday ==
    (Handled /\ msg.operation_type = "read")
    => /\ msg.parsed.success
       /\ (\A tok \in Tokens(NormalizeText(msg.text)) :
               IsDatetimeExpression(tok) => tok = "kyou")
          => /\ msg.parsed.start_time = DayStart(msg.now)
             /\ msg.parsed.end_time = EndOfDay(msg.now)
             /\ msg.parsed.date_only

\* C11: every time range the datetime extraction produces has its end
\* strictly after its start, whether it comes from
\* extract_datetime_from_message or from extract_time.
C11_EndAfterStart ==
    Handled =>
        LET datetime_info == ExtractDatetimeFromMessage(msg.text, msg.now)
            time_info == ExtractTime(msg.text, msg.now)
        IN  /\ datetime_info.found => datetime_info.end_time > datetime_info.start_time
            /\ ~time_info.date_only => time_info.end_time > time_info.start_time

\* The text names a day or a time.
HasTimeExpression(text) ==
    \E tok \in Tokens(NormalizeText(text)) :
        IsHour(tok) \/ IsDate(tok) \/ tok \in {"kyou", "ashita"}

\* C12: a text classified as add from which no time range or no title can be
\* extracted gives an error result of parse_message, and add_event is not
\* called for it.
C12_AddRequiresTimeAndTitle ==
    (/\ Handled
     /\ msg.operation_type = "add"
     /\ \/ ~HasTimeExpression(msg.text)
        \/ ExtractTitle(msg.text, "add") = NoTitle)
    => /\ ~msg.parsed.success
       /\ msg.request.call # "add_event"

\* C13: a delete whose remote calls all answered removes every matched event
\* and reports their number; when no event matched, also when the window
\* holds events of which none has the title, it fails as not found and is
\* not reported as a success with count 0.
C13_DeleteOutcome ==
    (res.op = "delete" /\ AllCallsOk(res.calls))
    => /\ res.ids = {} => (~res.success /\ res.kind = "not_found")
       /\ res.ids # {} => /\ res.success
                          /\ res.count = Cardinality(res.ids)
                          /\ store = { e \in before : e.id \notin res.ids }

\* C14: when the calendar holds two events of the same title whose starts are
\* more than an hour apart, and the stated time is within an hour of one of
\* them, the lookup of reschedule_event finds exactly one candidate, the event
\* whose start is nearest to the stated time.
C14_NearestCandidateOnly ==
    (/\ res.op = "reschedule"
     /\ res.calls[1].outcome = "ok"
     /\ Cardinality(before) = 2
     /\ \E e \in before, f \in before :
           /\ e.id # f.id
           /\ e.summary = f.summary
           /\ Abs(e.start - f.start) > ToleranceMinutes
           /\ KeywordMatches(res.title, e.summary)
           /\ Abs(e.start - res.start) <= ToleranceMinutes)
    => /\ Cardinality(res.cands) = 1
       /\ \A e \in before : e.id \in res.cands =>
             \A f \in before : Abs(e.start - res.start) <= Abs(f.start - res.start)

\* The events of st cover [S, E) back to back: no two intersect, each starts
\* at S or where another one ends, and one reaches E.
Packed(st, S, E) ==
    /\ st # {}
    /\ \A e \in st, f \in st : e.id # f.id => ~Intersects(e, f.start, f.end)
    /\ \A e \in st : e.start = S \/ \E f \in st : f.end = e.start
    /\ \E e \in st : e.end >= E

\* C15: for a day without events the free time is one slot, the whole day;
\* for a day covered end to end by back-to-back events there is no slot.
C15_FreeTimeBoundaries ==
    (res.op \in {"free_slots", "free_time"} /\ AllCallsOk(res.calls))
    => /\ before = {} => res.slots = << [start |-> res.start, end |-> res.end] >>
       /\ Packed(before, res.start, res.end) => res.slots = << >>

\* C16: normalize_text never fails, and normalizing its result again changes
\* nothing.
C16_NormalizeIdempotent ==
    res.op = "normalize"
    => /\ res.success
       /\ NormalizeChars(res.title) = res.title

\* a text that normalize_text changed, in its width and by a replacement
C16_Witness ==
    /\ res.op = "normalize"
    /\ msg.text = <<"hA", "su", "z1">>
    /\ res.title = <<"ashita_kanji", "1">>

\* the operations with a keyword in the text
KeywordOperations(normalized_text) ==
    { op \in {"add", "delete", "update", "read"} :
        ContainsAny(normalized_text,
                    CASE op = "add"    -> ADD_KEYWORDS
                      [] op = "delete" -> DELETE_KEYWORDS
                      [] op = "update" -> UPDATE_KEYWORDS
                      [] op = "read"   -> READ_KEYWORDS) }

\* C17: for a message with a keyword of exactly one operation, parse_message
\* returns success with that operation, the title of the title extractor
\* (add, delete, update) and a start_time and end_time that are not null.
C17_ParseResultShape ==
    \A op \in {"add", "delete", "update", "read"} :
        (Handled /\ KeywordOperations(NormalizeText(msg.text)) = {op})
        => /\ msg.parsed.success
           /\ msg.parsed.operation_type = op
           /\ op # "read" => msg.parsed.title = ExtractTitle(msg.text, op)
           /\ msg.parsed.has_time

\* parse_message returned success False, or found no operation
ParseFailed == ~msg.parsed.success \/ msg.parsed.operation_type = "none"

\* C18: when parsing fails, the message is answered with a failure message
\* and no call of any kind is made on the calendar for it.
C18_ParseFailureShortCircuits ==
    (Handled /\ ParseFailed)
    => /\ res.op = "reply"
       /\ ~res.success
       /\ res.calls = << >>
       /\ msg.request = NoRequest
       /\ store = before

\* an add whose hour cannot be extracted, answered on a calendar with an event
C18_Witness ==
    /\ Handled
    /\ msg.text = <<"25ji", "tsuika">>
    /\ ~msg.parsed.success
    /\ res.op = "reply"
    /\ store # {}

\* C19: after an update, if only a new start was given the event is as long
\* as it was, exactly; if a new duration was given the event ends that long
\* after its start, and update_event_duration leaves the start where it was.
C19_UpdateEndTime ==
    (res.op \in {"reschedule_end_time", "duration_end_time"} /\ res.success)
    => /\ res.new_duration = NoDuration => res.nend - res.nstart = res.end - res.start
       /\ res.new_duration # NoDuration
            => res.nend = res.nstart + res.new_duration * SecondsPerMinute
       /\ res.op = "duration_end_time" => res.nstart = res.start

\* the events other than the updated one that the new interval intersects
OtherIntersecting == Intersecting(before, res.nstart, res.nend) \ {res.target}

\* C20: an update whose new interval intersects another event fails with the
\* intersecting events, the update call is never made and the calendar stays
\* as it was.
C20_UpdateConflictAbort ==
    (/\ res.op \in {"update", "reschedule", "duration"}
     /\ res.target # 0
     /\ \A k \in ListCalls(res.calls) : res.calls[k].outcome = "ok"
     /\ OtherIntersecting # {})
    => /\ ~res.success
       /\ res.ids # {} /\ res.ids \subseteq OtherIntersecting
       /\ "update" \notin CallNames(res.calls)
       /\ store = before

\* the interval of the add request is empty or reversed, or starts before
\* the time the message arrived
InvalidAddInterval ==
    \/ msg.request.end_time <= msg.request.start_time
    \/ msg.request.start_time < msg.now

\* C21: an add whose end is not after its start, or whose start is in the
\* past, fails, and no create call is made for it.
C21_AddIntervalValidated ==
    (Handled /\ msg.request.call = "add_event" /\ InvalidAddInterval)
    => /\ ~res.success
       /\ "insert" \notin CallNames(res.calls)
       /\ store = before

\* the events the list call of the delete request returns
InDeleteWindow ==
    { e \in before : Intersects(e, res.start - DeleteBufferMinutes,
                                res.end + DeleteBufferMinutes) }

\* one title is contained in the other
TitlesRelated(summary, title) ==
    IsSubstring(title, summary) \/ IsSubstring(summary, title)

\* C22: a delete with a title removes an event of the search window exactly
\* when its title and the stated title contain one another; an event whose
\* title contains the stated title and more is deleted.
C22_DeleteTitleContainment ==
    (res.op = "delete" /\ res.title # NoTitle /\ AllCallsOk(res.calls))
    => \A e \in InDeleteWindow :
          TitlesRelated(e.summary, res.title) <=> e \notin store

\* the text has a date or time expression and a date-time is extracted
DatetimeSpanExtractable ==
    /\ HasTimeExpression(msg.text)
    /\ ExtractDatetimeFromMessage(msg.text, msg.now).found

\* C23: a text without any keyword is an add exactly when a date-time span
\* and a title can both be extracted from it; otherwise no operation is found
\* and the message is rejected.
C23_ClassifierFallback ==
    (Handled /\ KeywordOperations(NormalizeText(msg.text)) = {})
    => /\ msg.operation_type = "add"
            <=> (DatetimeSpanExtractable /\ ExtractTitle(msg.text, "none") # NoTitle)
       /\ msg.operation_type # "add"
            => (msg.operation_type = "none" /\ res.op = "reply" /\ ~res.success)

\* the positions of the clock times of the text
HourPositions(text) == { i \in 1..Len(text) : IsHour(NormalizeText(text)[i]) }

\* the text has one clock time, a valid one, and no date expression
TimeOnly(text) ==
    /\ Cardinality(HourPositions(text)) = 1
    /\ \A i \in HourPositions(text) : Hour[NormalizeText(text)[i]] < HoursPerDay
    /\ \A tok \in Tokens(NormalizeText(text)) : ~IsDate(tok) /\ tok \notin {"kyou", "ashita"}

\* the clock time of a TimeOnly text, on the day of the clock
GivenTime(text, now) ==
    DayStart(now) + Hour[NormalizeText(text)[Min(HourPositions(text))]] * MinutesPerHour

\* C24: for a text with a clock time and no date expression the extracted
\* range starts today at that time and ends exactly one hour later, in the
\* result of parse_message as in that of extract_time.
C24_TimeOnlyRange ==
    (Handled /\ msg.parsed.success /\ TimeOnly(msg.text))
    => /\ ExtractTime(msg.text, msg.now).start_time = GivenTime(msg.text, msg.now)
       /\ ExtractTime(msg.text, msg.now).end_time
             = GivenTime(msg.text, msg.now) + MinutesPerHour
       /\ msg.parsed.start_time = GivenTime(msg.text, msg.now)
       /\ msg.parsed.end_time = msg.parsed.start_time + MinutesPerHour

\* C25: every free slot returned is not empty, at least min_duration long,
\* inside the range asked for, and intersects no event of the day, whether or
\* not the events overlap or lie inside one another.
C25_FreeSlotsAreFree ==
    (res.op \in {"free_slots", "free_time"} /\ AllCallsOk(res.calls))
    => \A k \in 1..Len(res.slots) :
          LET slot == res.slots[k]
          IN  /\ slot.end > slot.start
              /\ slot.end - slot.start >= res.min_duration
              /\ slot.start >= res.start /\ slot.end <= res.end
              /\ \A e \in before : ~Intersects(e, slot.start, slot.end)

\* C26: for every text message, whatever the operation and whether parsing
\* or the calendar failed, reply_message is called exactly once.
C26_OneReplyPerMessage ==
    Handled => msg.replies = 1

Created == { r \in AddRequests : adds[r].success }

\* C28: of two add requests for the same title and interval, handled in
\* parallel on a slot that was free, at most one creates an event and the
\* other one fails with a conflict, whatever the interleaving.
C28_ConcurrentAdds ==
    (/\ \A r \in AddRequests : adds[r].pc = "done" /\ AllCallsOk(adds[r].calls)
     /\ \A r \in AddRequests : Intersecting(before, adds[r].start, adds[r].end) = {})
    => /\ Cardinality(Created) <= 1
       /\ Cardinality(store \ before) <= 1
       /\ \E r \in AddRequests : adds[r].kind = "conflict"

\* the events the delete request removed from the calendar
Removed == before \ store

\* C29: a delete removes only events of its search window that match the
\* title, if one is given; every other event stays as it was, and
\* deleted_count is the number of events removed.
C29_DeleteFrame ==
    (res.op = "delete" /\ res.success)
    => /\ store \subseteq before
       /\ \A e \in Removed :
             /\ e \in InDeleteWindow
             /\ res.title # NoTitle => TitlesRelated(e.summary, res.title)
       /\ res.count = Cardinality(Removed)

\* C30: once authorize_user(u) has returned True, is_authorized(u) is True
\* from then on, whether or not u had been added before, and a later
\* add_user(u) does not take the authorization away.
C30_AuthorizationSticks ==
    \A u \in db.authorized_ok : IsAuthorized(db.rows, u)
====
